---- MODULE Spec2Model ----
(***************************************************************************)
(* A model of asp, the assembler for a small 8-bit instruction set:        *)
(* bounded immediates (imm.rs), register identifiers (reg.rs), the opcode  *)
(* codec (op.rs), the assembly and binary readers (assembly.rs, binary.rs),*)
(* the three serializers (program.rs) and the output step of main.rs.      *)
(*                                                                         *)
(* Text is a sequence of one-character strings.  A u8 is a number in       *)
(* 0..255, an i8 a number in -128..127, an i32 a number in -2^31..2^31-1.  *)
(***************************************************************************)
EXTENDS Integers, Sequences, FiniteSets, TLC

VARIABLES
    \* op.rs codec: the value handed in, the results of try_from / to_binary
    value, tried, binary, cpc,
    \* imm.rs: the constructor's argument, its Option result, what get() read
    immArg, immOpt, immGot, ipc,
    \* assembly.rs parse_file: the lines of the file as the reader meets
    \* them, how many it has pulled, enumerate's counter, the ops collected,
    \* the errors pushed, what was printed, the Option<Program> returned
    file, nread, count, ops, errors, stdout, parsed, apc,
    \* assembly.rs parse_line on one line: the Line, the Result
    line, lineResult, lpc,
    \* binary.rs parse_file: the bytes on disk and whether reading them
    \* fails, the bytes read, the iterator's index, the ops collected, what
    \* was printed, the Option<Program> returned
    disk, contents, bidx, bops, bstdout, bparsed, bpc,
    \* program.rs / main.rs: the Program to write, the format, the output
    \* file on disk, the serializer's result, the exit code
    prog, format, outfile, serialized, exitCode, mpc

codecVars == <<value, tried, binary, cpc>>
immVars == <<immArg, immOpt, immGot, ipc>>
asmVars == <<file, nread, count, ops, errors, stdout, parsed, apc>>
lineVars == <<line, lineResult, lpc>>
binVars == <<disk, contents, bidx, bops, bstdout, bparsed, bpc>>
mainVars == <<prog, format, outfile, serialized, exitCode, mpc>>
vars == <<codecVars, immVars, asmVars, lineVars, binVars, mainVars>>

None == [kind |-> "None"]

\* ------------------------------------------------------------ integers

RECURSIVE Pow2(_)
Pow2(n) == IF n = 0 THEN 1 ELSE 2 * Pow2(n - 1)

U8 == 0..255
I8 == -128..127

\* `x as u8` of an i8, and `x as i8` of a u8 (two's complement)
AsU8(x) == (x + 256) % 256
AsI8(x) == IF x >= 128 THEN x - 256 ELSE x

RECURSIVE BitAndN(_, _, _)
BitAndN(a, b, n) ==
    IF n = 0 THEN 0
    ELSE (a % 2) * (b % 2) + 2 * BitAndN(a \div 2, b \div 2, n - 1)

RECURSIVE BitOrN(_, _, _)
BitOrN(a, b, n) ==
    IF n = 0 THEN 0
    ELSE (IF (a % 2) + (b % 2) > 0 THEN 1 ELSE 0)
         + 2 * BitOrN(a \div 2, b \div 2, n - 1)

\* & and | on u8 operands; on i8 operands the bits are those of the
\* two's-complement byte
And8(a, b) == BitAndN(a, b, 8)
Or8(a, b) == BitOrN(a, b, 8)
AndI8(a, b) == AsI8(And8(AsU8(a), AsU8(b)))
Shr8(x, k) == x \div Pow2(k)
Shl8(x, k) == (x * Pow2(k)) % 256

\* ------------------------------------------------------------ imm.rs

\* ImmType::MIN / ImmType::MAX for u8 and i8 (const arithmetic in the
\* underlying type; every width used keeps it in range)
ImmMIN(signed, N) == IF signed THEN -Pow2(N - 1) ELSE 0
ImmMAX(signed, N) == IF signed THEN Pow2(N - 1) - 1 ELSE Pow2(N) - 1

ImmNewExclusiveMax(signed, N, v) ==
    IF v >= ImmMIN(signed, N) /\ v < ImmMAX(signed, N)
    THEN [some |-> TRUE, value |-> v]
    ELSE [some |-> FALSE]

\* Imm::new
ImmNew(signed, N, v) ==
    IF v >= ImmMIN(signed, N) /\ v <= ImmMAX(signed, N)
    THEN [some |-> TRUE, value |-> v]
    ELSE [some |-> FALSE]

\* Imm::get
ImmGet(imm) == imm.value

\* the aliases I5, U3, U4
I5New(v) == ImmNew(TRUE, 5, v)
U3New(v) == ImmNew(FALSE, 3, v)
U4New(v) == ImmNew(FALSE, 4, v)

\* ------------------------------------------------------------ reg.rs

\* impl TryFrom<u8> for Reg; a Reg is its discriminant 0..3
RegFromU8(v) ==
    IF v \in 0..3 THEN [ok |-> TRUE, reg |-> v]
    ELSE [ok |-> FALSE, err |-> "OutOfRange"]

\* ------------------------------------------------------------ op.rs

OpBR(imm) == [tag |-> "BR", imm |-> imm]
OpBRZ(imm) == [tag |-> "BRZ", imm |-> imm]
OpADDI(reg, imm) == [tag |-> "ADDI", reg |-> reg, imm |-> imm]
OpSUBI(reg, imm) == [tag |-> "SUBI", reg |-> reg, imm |-> imm]
OpSR0(imm) == [tag |-> "SR0", imm |-> imm]
OpSRH0(imm) == [tag |-> "SRH0", imm |-> imm]
OpCLR(reg) == [tag |-> "CLR", reg |-> reg]
OpMOV(regd, regs) == [tag |-> "MOV", regd |-> regd, regs |-> regs]
OpMOVA(reg) == [tag |-> "MOVA", reg |-> reg]
OpMOVR(reg) == [tag |-> "MOVR", reg |-> reg]
OpMOVRHS(reg) == [tag |-> "MOVRHS", reg |-> reg]
OpPAUSE == [tag |-> "PAUSE"]

Regs == 0..3

\* every Op value: each operand is a Reg or an Imm that Imm::new accepted
AllOps ==
    {OpBR(v) : v \in {x \in I8 : I5New(x).some}}
    \cup {OpBRZ(v) : v \in {x \in I8 : I5New(x).some}}
    \cup {OpADDI(r, v) : r \in Regs, v \in {x \in U8 : U3New(x).some}}
    \cup {OpSUBI(r, v) : r \in Regs, v \in {x \in U8 : U3New(x).some}}
    \cup {OpSR0(v) : v \in {x \in U8 : U4New(x).some}}
    \cup {OpSRH0(v) : v \in {x \in U8 : U4New(x).some}}
    \cup {OpCLR(r) : r \in Regs}
    \cup {OpMOV(d, s) : d \in Regs, s \in Regs}
    \cup {OpMOVA(r) : r \in Regs}
    \cup {OpMOVR(r) : r \in Regs}
    \cup {OpMOVRHS(r) : r \in Regs}
    \cup {OpPAUSE}

branch_bits_unmasked(imm) == AsU8(imm)

\* (imm.get() & 0x1f) as u8, the offset field of BR and BRZ
branch_bits(imm) == AsU8(AndI8(imm, 31))

\* Op::to_binary
to_binary(o) ==
    CASE o.tag = "BR" -> Or8(128, branch_bits(o.imm))
      [] o.tag = "BRZ" -> Or8(160, branch_bits(o.imm))
      [] o.tag = "ADDI" -> Or8(Or8(0, Shl8(o.imm, 2)), o.reg)
      [] o.tag = "SUBI" -> Or8(Or8(32, Shl8(o.imm, 2)), o.reg)
      [] o.tag = "SR0" -> Or8(64, o.imm)
      [] o.tag = "SRH0" -> Or8(80, o.imm)
      [] o.tag = "CLR" -> Or8(96, o.reg)
      [] o.tag = "MOV" -> Or8(Or8(112, Shl8(o.regd, 2)), o.regs)
      [] o.tag = "MOVA" -> Or8(192, o.reg)
      [] o.tag = "MOVR" -> Or8(196, o.reg)
      [] o.tag = "MOVRHS" -> Or8(200, o.reg)
      [] o.tag = "PAUSE" -> 255

\* the outcomes of a call that unwraps: a value, an error, or a panic
Panic == [kind |-> "Panic"]
OkOp(o) == [kind |-> "Ok", op |-> o]
InvalidOpcode(b) == [kind |-> "Err", opcode |-> b]

\* try_from's helpers to_reg, to_i5, to_u3, to_u4: the Option / Result each
\* of them unwraps
to_reg(val) == RegFromU8(val)
to_i5_zero_extend(val) == I5New(AsI8(And8(val, 31)))
to_i5(val) ==
    LET sign_extend ==
            AsI8(Or8(And8(val, 31), IF And8(val, 16) # 0 THEN 224 ELSE 0))
    IN  I5New(sign_extend)
to_u3(val) == U3New(val)
to_u4(val) == U4New(val)

\* Ok(Op::X(..)) around the helpers' unwraps: a None or an Err panics
Op1Imm(tag, i) ==
    IF i.some THEN OkOp([tag |-> tag, imm |-> ImmGet(i)]) ELSE Panic
Op1Reg(tag, r) ==
    IF r.ok THEN OkOp([tag |-> tag, reg |-> r.reg]) ELSE Panic
OpRegImm(tag, r, i) ==
    IF r.ok /\ i.some
    THEN OkOp([tag |-> tag, reg |-> r.reg, imm |-> ImmGet(i)])
    ELSE Panic
OpRegReg(tag, d, s) ==
    IF d.ok /\ s.ok
    THEN OkOp([tag |-> tag, regd |-> d.reg, regs |-> s.reg])
    ELSE Panic

\* impl TryFrom<u8> for Op: the match arms are tried in order, which is what
\* the IF chain does
TryFrom(opcode) ==
    IF Shr8(opcode, 5) = 4 THEN Op1Imm("BR", to_i5(And8(opcode, 31)))
    ELSE IF Shr8(opcode, 5) = 5 THEN Op1Imm("BRZ", to_i5(And8(opcode, 31)))
    ELSE IF Shr8(opcode, 5) = 0 THEN
        OpRegImm("ADDI", to_reg(And8(opcode, 3)),
                 to_u3(And8(Shr8(opcode, 2), 7)))
    ELSE IF Shr8(opcode, 5) = 1 THEN
        OpRegImm("SUBI", to_reg(And8(opcode, 3)),
                 to_u3(And8(Shr8(opcode, 2), 7)))
    ELSE IF Shr8(opcode, 4) = 4 THEN Op1Imm("SR0", to_u4(And8(opcode, 15)))
    ELSE IF Shr8(opcode, 4) = 5 THEN Op1Imm("SRH0", to_u4(And8(opcode, 15)))
    ELSE IF Shr8(opcode, 2) = 24 THEN Op1Reg("CLR", to_reg(And8(opcode, 3)))
    ELSE IF Shr8(opcode, 4) = 7 THEN
        OpRegReg("MOV", to_reg(And8(Shr8(opcode, 2), 3)),
                 to_reg(And8(opcode, 3)))
    ELSE IF Shr8(opcode, 2) = 48 THEN Op1Reg("MOVA", to_reg(And8(opcode, 3)))
    ELSE IF Shr8(opcode, 2) = 49 THEN Op1Reg("MOVR", to_reg(And8(opcode, 3)))
    ELSE IF Shr8(opcode, 2) = 50 THEN Op1Reg("MOVRHS", to_reg(And8(opcode, 3)))
    ELSE IF opcode = 255 THEN OkOp(OpPAUSE)
    ELSE InvalidOpcode(opcode)

\* ------------------------------------------------------------ text

\* char::is_whitespace, for the characters the model writes
Whitespace == {" ", "\t", "\r", "\n"}

RECURSIVE TrimStart(_)
TrimStart(s) ==
    IF s # <<>> /\ Head(s) \in Whitespace THEN TrimStart(Tail(s)) ELSE s

RECURSIVE TrimEnd(_)
TrimEnd(s) ==
    IF s # <<>> /\ s[Len(s)] \in Whitespace
    THEN TrimEnd(SubSeq(s, 1, Len(s) - 1))
    ELSE s

\* str::trim
Trim(s) == TrimEnd(TrimStart(s))

\* str::find with a set of characters: the first index at or after k
\* holding one of them, 0 when there is none
RECURSIVE FindFrom(_, _, _)
FindFrom(s, chs, k) ==
    IF k > Len(s) THEN 0
    ELSE IF s[k] \in chs THEN k
    ELSE FindFrom(s, chs, k + 1)

\* str::split: the fragments between separators, empty ones included
RECURSIVE Split(_, _)
Split(s, seps) ==
    LET k == FindFrom(s, seps, 1)
    IN  IF k = 0 THEN <<s>>
        ELSE <<SubSeq(s, 1, k - 1)>> \o Split(SubSeq(s, k + 1, Len(s)), seps)

Digits == {"0", "1", "2", "3", "4", "5", "6", "7", "8", "9"}

DigitVal(c) ==
    CASE c = "0" -> 0 [] c = "1" -> 1 [] c = "2" -> 2 [] c = "3" -> 3
      [] c = "4" -> 4 [] c = "5" -> 5 [] c = "6" -> 6 [] c = "7" -> 7
      [] c = "8" -> 8 [] c = "9" -> 9

DigitChar(d) == <<"0", "1", "2", "3", "4", "5", "6", "7", "8", "9">>[d + 1]

I32Max == 2147483647
I32Min == (0 - I32Max) - 1

ParseErr(e) == [ok |-> FALSE, err |-> e]

\* the digit loop of str::parse for an integer type min..max: checked_mul
\* and checked_add (checked_sub after a minus sign) on every digit
RECURSIVE ParseDigits(_, _, _, _, _)
ParseDigits(ds, acc, positive, min, max) ==
    IF ds = <<>> THEN [ok |-> TRUE, val |-> acc]
    ELSE IF Head(ds) \notin Digits THEN ParseErr("InvalidDigit")
    ELSE LET d == DigitVal(Head(ds))
         IN  IF positive
             THEN IF acc > (max - d) \div 10 THEN ParseErr("PosOverflow")
                  ELSE ParseDigits(Tail(ds), acc * 10 + d, positive, min, max)
             ELSE IF acc < (min + d + 9) \div 10 THEN ParseErr("NegOverflow")
                  ELSE ParseDigits(Tail(ds), acc * 10 - d, positive, min, max)

\* str::parse::<T>() for an integer type T = min..max
ParseInt(src, signed, min, max) ==
    IF src = <<>> THEN ParseErr("Empty")
    ELSE IF Head(src) \in {"+", "-"} /\ Len(src) = 1
        THEN ParseErr("InvalidDigit")
    ELSE IF Head(src) = "+" THEN ParseDigits(Tail(src), 0, TRUE, min, max)
    ELSE IF Head(src) = "-" /\ signed
        THEN ParseDigits(Tail(src), 0, FALSE, min, max)
    ELSE ParseDigits(src, 0, TRUE, min, max)

\* imm.parse::<i32>()
ParseI32(src) == ParseInt(src, TRUE, I32Min, I32Max)

\* number.parse::<u8>()
ParseU8(src) == ParseInt(src, FALSE, 0, 255)

\* i32 -> u8 / i8 by TryFrom
NarrowI32(val, signed) ==
    IF signed THEN val \in I8 ELSE val \in U8

\* Display of an integer
RECURSIVE FmtNat(_)
FmtNat(n) ==
    IF n < 10 THEN <<DigitChar(n)>>
    ELSE FmtNat(n \div 10) \o <<DigitChar(n % 10)>>
FmtIntAsByte(n) == FmtNat(AsU8(n))
FmtInt(n) == IF n < 0 THEN <<"-">> \o FmtNat(0 - n) ELSE FmtNat(n)

\* impl Display for Reg
FmtReg(r) == <<"r">> \o FmtNat(r)

\* impl TryFrom<&str> for Reg
RegFromStr(s) ==
    IF s = <<>> \/ Head(s) # "r" THEN [ok |-> FALSE, err |-> "MissingPrefix"]
    ELSE LET number == ParseU8(Tail(s))
         IN  IF ~number.ok THEN [ok |-> FALSE, err |-> "InvalidNumber"]
             ELSE RegFromU8(number.val)

\* ------------------------------------------------------------ assembly.rs

\* the twelve mnemonics of parse_line's match, as text
Mnemonics == [
    BR |-> <<"B", "R">>,
    BRZ |-> <<"B", "R", "Z">>,
    ADDI |-> <<"A", "D", "D", "I">>,
    SUBI |-> <<"S", "U", "B", "I">>,
    SR0 |-> <<"S", "R", "0">>,
    SRH0 |-> <<"S", "R", "H", "0">>,
    CLR |-> <<"C", "L", "R">>,
    MOVA |-> <<"M", "O", "V", "A">>,
    MOVR |-> <<"M", "O", "V", "R">>,
    MOVRHS |-> <<"M", "O", "V", "R", "H", "S">>,
    MOV |-> <<"M", "O", "V">>,
    PAUSE |-> <<"P", "A", "U", "S", "E">> ]

\* Line::preprocess: cut at the first ';', trim, drop an empty rest
preprocess(l) ==
    LET i == FindFrom(l.string, {";"}, 1)
        cut == IF i = 0 THEN Len(l.string) ELSE i - 1
        string == Trim(SubSeq(l.string, 1, cut))
    IN  IF string = <<>> THEN [some |-> FALSE]
        ELSE [some |-> TRUE, string |-> string, lineno |-> l.lineno]

TrimAll(frs) == [k \in 1..Len(frs) |-> Trim(frs[k])]

\* LinePreprocessed::tokenize: splitn(2, ' '), then split([',', ' ']) of the
\* rest, each fragment trimmed and the empty ones dropped
tokenize(string) ==
    LET k == FindFrom(string, {" "}, 1)
    IN  IF k = 0 THEN [mnenomic |-> string, tokens |-> <<>>]
        ELSE [mnenomic |-> SubSeq(string, 1, k - 1),
              tokens |-> SelectSeq(
                  TrimAll(Split(SubSeq(string, k + 1, Len(string)),
                                {",", " "})),
                  LAMBDA t : t # <<>>)]

\* AsmError
AsmErr(e) == [kind |-> "Err", err |-> e]
AsmErrText(e, t) == [kind |-> "Err", err |-> e, text |-> t]
ImmediateOutOfRange(v) == [kind |-> "Err", err |-> "ImmediateOutOfRange", val |-> v]

\* parse_line::get_imm for Imm<T, N>: the next token, one leading '#'
\* stripped, parsed as i32, narrowed to T, then range-checked by Imm
get_imm(tokens, signed, N) ==
    IF tokens = <<>> THEN [res |-> AsmErr("MissingImmediate"), rest |-> tokens]
    ELSE LET tok == Head(tokens)
             imm == IF tok # <<>> /\ Head(tok) = "#" THEN Tail(tok) ELSE tok
             val == ParseI32(imm)
             res == IF ~val.ok THEN AsmErrText("InvalidImmediate", imm)
                    ELSE IF ~NarrowI32(val.val, signed)
                        THEN ImmediateOutOfRange(val.val)
                    ELSE IF ~ImmNew(signed, N, val.val).some
                        THEN ImmediateOutOfRange(val.val)
                    ELSE [kind |-> "Ok", imm |-> ImmGet(ImmNew(signed, N, val.val))]
         IN  [res |-> res, rest |-> Tail(tokens)]

\* parse_line::get_reg
get_reg(tokens) ==
    IF tokens = <<>> THEN [res |-> AsmErr("MissingRegister"), rest |-> tokens]
    ELSE LET reg == Head(tokens)
             r == RegFromStr(reg)
         IN  [res |-> IF r.ok THEN [kind |-> "Ok", reg |-> r.reg]
                      ELSE AsmErrText("InvalidRegister", reg),
              rest |-> Tail(tokens)]

\* the tail of parse_line: a token left over is an ExtraToken
NoExtra(o, tokens) ==
    IF tokens # <<>> THEN AsmErrText("ExtraToken", Head(tokens)) ELSE OkOp(o)

\* the arms of parse_line's match, by operand shape; `?` returns the first
\* error
ArmImm(tag, signed, N, tokens) ==
    LET i == get_imm(tokens, signed, N)
    IN  IF i.res.kind = "Err" THEN i.res
        ELSE NoExtra([tag |-> tag, imm |-> i.res.imm], i.rest)

ArmReg(tag, tokens) ==
    LET r == get_reg(tokens)
    IN  IF r.res.kind = "Err" THEN r.res
        ELSE NoExtra([tag |-> tag, reg |-> r.res.reg], r.rest)

\* ADDI / SUBI with the operands read in the other order
ArmRegImmImmFirst(tag, tokens) ==
    LET r == get_reg(tokens)
        i == get_imm(r.rest, FALSE, 3)
    IN  IF i.res.kind = "Err" THEN i.res
        ELSE IF r.res.kind = "Err" THEN r.res
        ELSE NoExtra([tag |-> tag, reg |-> r.res.reg, imm |-> i.res.imm], i.rest)

ArmRegImm(tag, tokens) ==
    LET r == get_reg(tokens)
        i == get_imm(r.rest, FALSE, 3)
    IN  IF r.res.kind = "Err" THEN r.res
        ELSE IF i.res.kind = "Err" THEN i.res
        ELSE NoExtra([tag |-> tag, reg |-> r.res.reg, imm |-> i.res.imm], i.rest)

ArmRegReg(tag, tokens) ==
    LET d == get_reg(tokens)
        s == get_reg(d.rest)
    IN  IF d.res.kind = "Err" THEN d.res
        ELSE IF s.res.kind = "Err" THEN s.res
        ELSE NoExtra([tag |-> tag, regd |-> d.res.reg, regs |-> s.res.reg], s.rest)

\* parse_line
parse_line(lp) ==
    LET tokenized == tokenize(lp.string)
        m == tokenized.mnenomic
        tokens == tokenized.tokens
    IN  IF m = Mnemonics.BR THEN ArmImm("BR", TRUE, 5, tokens)
        ELSE IF m = Mnemonics.BRZ THEN ArmImm("BRZ", TRUE, 5, tokens)
        ELSE IF m = Mnemonics.ADDI THEN ArmRegImm("ADDI", tokens)
        ELSE IF m = Mnemonics.SUBI THEN ArmRegImm("SUBI", tokens)
        ELSE IF m = Mnemonics.SR0 THEN ArmImm("SR0", FALSE, 4, tokens)
        ELSE IF m = Mnemonics.SRH0 THEN ArmImm("SRH0", FALSE, 4, tokens)
        ELSE IF m = Mnemonics.CLR THEN ArmReg("CLR", tokens)
        ELSE IF m = Mnemonics.MOVA THEN ArmReg("MOVA", tokens)
        ELSE IF m = Mnemonics.MOVR THEN ArmReg("MOVR", tokens)
        ELSE IF m = Mnemonics.MOVRHS THEN ArmReg("MOVRHS", tokens)
        ELSE IF m = Mnemonics.MOV THEN ArmRegReg("MOV", tokens)
        ELSE IF m = Mnemonics.PAUSE THEN NoExtra(OpPAUSE, tokens)
        ELSE AsmErrText("InvalidMnenomic", m)

\* Op::to_string
to_string(o) ==
    LET name == Mnemonics[o.tag]
    IN  CASE o.tag \in {"BR", "BRZ", "SR0", "SRH0"} ->
                name \o <<" ">> \o FmtInt(o.imm)
          [] o.tag \in {"ADDI", "SUBI"} ->
                name \o <<" ">> \o FmtReg(o.reg) \o <<",", " ">> \o FmtInt(o.imm)
          [] o.tag = "MOV" ->
                name \o <<" ">> \o FmtReg(o.regd) \o <<",", " ">> \o FmtReg(o.regs)
          [] o.tag = "PAUSE" -> name
          [] OTHER -> name \o <<" ">> \o FmtReg(o.reg)

\* ------------------------------------------------- the codec, stepped

Widths == {3, 4, 5}

CodecIdle == value = None /\ tried = None /\ binary = None /\ cpc = "idle"
ImmIdle == immArg = None /\ immOpt = None /\ immGot = None /\ ipc = "idle"
AsmIdle ==
    /\ file = <<>> /\ nread = 0 /\ count = 0 /\ ops = <<>> /\ errors = <<>>
    /\ stdout = <<>> /\ parsed = None /\ apc = "idle"
LineIdle == line = None /\ lineResult = None /\ lpc = "idle"
BinIdle ==
    /\ disk = None /\ contents = <<>> /\ bidx = 0 /\ bops = <<>>
    /\ bstdout = <<>> /\ bparsed = None /\ bpc = "idle"
MainIdle ==
    /\ prog = None /\ format = "none" /\ outfile = None /\ serialized = None
    /\ exitCode = None /\ mpc = "idle"

\* a byte to decode, or an instruction to encode
CodecInputs ==
    /\ \/ /\ value \in {[kind |-> "byte", byte |-> b] : b \in U8}
          /\ cpc = "byte"
       \/ /\ value \in {[kind |-> "op", op |-> o] : o \in AllOps}
          /\ cpc = "op"
    /\ tried = None
    /\ binary = None

\* u8::try_into::<Op>() on a raw byte
TryFromByte ==
    /\ cpc = "byte"
    /\ tried' = TryFrom(value.byte)
    /\ cpc' = "decoded"
    /\ UNCHANGED <<value, binary, immVars, asmVars, lineVars, binVars, mainVars>>

\* to_binary of what the decoder produced
ToBinaryDecoded ==
    /\ cpc = "decoded"
    /\ tried.kind = "Ok"
    /\ binary' = to_binary(tried.op)
    /\ cpc' = "reencoded"
    /\ UNCHANGED <<value, tried, immVars, asmVars, lineVars, binVars, mainVars>>

\* to_binary of an instruction
ToBinaryOp ==
    /\ cpc = "op"
    /\ binary' = to_binary(value.op)
    /\ cpc' = "encoded"
    /\ UNCHANGED <<value, tried, immVars, asmVars, lineVars, binVars, mainVars>>

\* try_from of the byte to_binary gave
TryFromEncoded ==
    /\ cpc = "encoded"
    /\ tried' = TryFrom(binary)
    /\ cpc' = "redecoded"
    /\ UNCHANGED <<value, binary, immVars, asmVars, lineVars, binVars, mainVars>>

CodecNext == TryFromByte \/ ToBinaryDecoded \/ ToBinaryOp \/ TryFromEncoded

CodecInit ==
    CodecInputs /\ ImmIdle /\ AsmIdle /\ LineIdle /\ BinIdle /\ MainIdle

SpecCodec == CodecInit /\ [][CodecNext]_vars

\* ------------------------------------------------- Imm::new, stepped

ImmInputs ==
    /\ immArg \in {[signed |-> TRUE, n |-> n, v |-> v] : n \in Widths, v \in I8}
             \cup {[signed |-> FALSE, n |-> n, v |-> v] : n \in Widths, v \in U8}
    /\ immOpt = None
    /\ immGot = None
    /\ ipc = "new"

CallImmNew ==
    /\ ipc = "new"
    /\ immOpt' = ImmNew(immArg.signed, immArg.n, immArg.v)
    /\ ipc' = "made"
    /\ UNCHANGED <<immArg, immGot, codecVars, asmVars, lineVars, binVars, mainVars>>

CallImmGet ==
    /\ ipc = "made"
    /\ immOpt.some
    /\ immGot' = ImmGet(immOpt)
    /\ ipc' = "got"
    /\ UNCHANGED <<immArg, immOpt, codecVars, asmVars, lineVars, binVars, mainVars>>

ImmNext == CallImmNew \/ CallImmGet

ImmInit ==
    ImmInputs /\ CodecIdle /\ AsmIdle /\ LineIdle /\ BinIdle /\ MainIdle

SpecImm == ImmInit /\ [][ImmNext]_vars

\* ------------------------------------------------- assembly::parse_file

\* one byte that no UTF-8 text contains (0xFF), as a character of a raw line
BadByte == "0xFF"

\* what io::BufRead::lines checks before it hands a line over as a String
IsUtf8(raw) == \A k \in 1..Len(raw) : raw[k] # BadByte

AsmLineError(e, lineno) == [error |-> e, lineno |-> lineno]

\* one pull through the iterator chain of parse_file::inner: lines(),
\* filter_map(ok), enumerate, map to Line, filter_map(preprocess), then the
\* filter_map that parses the line and pushes its error
AsmPullLine ==
    /\ apc = "lines"
    /\ nread < Len(file)
    /\ nread' = nread + 1
    /\ LET raw == file[nread + 1]
           l == [string |-> raw, lineno |-> count + 1]
           p == preprocess(l)
           r == parse_line(p)
       IN  IF ~IsUtf8(raw)
           THEN UNCHANGED <<count, ops, errors>>
           ELSE /\ count' = count + 1
                /\ IF ~p.some THEN UNCHANGED <<ops, errors>>
                   ELSE IF r.kind = "Ok"
                       THEN ops' = Append(ops, r.op) /\ UNCHANGED errors
                   ELSE /\ errors' = Append(errors,
                               AsmLineError([x \in DOMAIN r \ {"kind"} |-> r[x]],
                                            p.lineno))
                        /\ UNCHANGED ops
    /\ UNCHANGED <<file, stdout, parsed, apc>>
    /\ UNCHANGED <<codecVars, immVars, lineVars, binVars, mainVars>>

\* the end of the iteration: a Program only if no error was pushed,
\* otherwise every error is printed and None returned
AsmCollect ==
    /\ apc = "lines"
    /\ nread = Len(file)
    /\ IF errors = <<>>
       THEN parsed' = [some |-> TRUE, ops |-> ops] /\ UNCHANGED stdout
       ELSE parsed' = [some |-> FALSE] /\ stdout' = errors
    /\ apc' = "done"
    /\ UNCHANGED <<file, nread, count, ops, errors>>
    /\ UNCHANGED <<codecVars, immVars, lineVars, binVars, mainVars>>

AsmNext == AsmPullLine \/ AsmCollect

\* the lines the files of the model are made of
\* an empty line
LBlank == <<>>
\* a comment-only line
LComment == <<" ", " ", ";", " ", "c">>
\* PAUSE
LPause == <<"P", "A", "U", "S", "E">>
\* an instruction with a trailing comment
LAddi == <<"A", "D", "D", "I", " ", "r", "3", ",", " ", "7", " ", ";", " ", "x">>
\* an unknown mnemonic
LBadMnemonic == <<"S", "B", "I">>
\* an immediate out of range
LBadImm == <<"A", "D", "D", "I", " ", "r", "3", ",", " ", "8">>
\* a comment holding a byte that is not UTF-8
LCommentBadByte == <<";", " ", "0xFF">>
\* an instruction whose comment holds a byte that is not UTF-8
LClrBadByte == <<"C", "L", "R", " ", "r", "1", " ", ";", " ", "0xFF">>
\* a byte that is not UTF-8 inside the mnemonic
LBadByteOnly == <<"S", "0xFF", "I">>

AsmLinePool ==
    {LBlank, LComment, LPause, LAddi, LBadMnemonic, LBadImm,
     LCommentBadByte, LClrBadByte, LBadByteOnly}

MaxLines == 3

BoundedSeq(S, n) == UNION {[1..k -> S] : k \in 0..n}

AsmStart(f) ==
    /\ file = f /\ nread = 0 /\ count = 0 /\ ops = <<>> /\ errors = <<>>
    /\ stdout = <<>> /\ parsed = None /\ apc = "lines"

AsmInit ==
    /\ \E f \in BoundedSeq(AsmLinePool, MaxLines) : AsmStart(f)
    /\ CodecIdle /\ ImmIdle /\ LineIdle /\ BinIdle /\ MainIdle

SpecAsm == AsmInit /\ [][AsmNext]_vars

\* ------------------------------------------------- C1: the opcode table

\* the table of opcode patterns, most significant bit first
SpecTable == <<
    [name |-> "BR",     pat |-> <<"1","0","0","i","i","i","i","i">>],
    [name |-> "BRZ",    pat |-> <<"1","0","1","i","i","i","i","i">>],
    [name |-> "ADDI",   pat |-> <<"0","0","0","i","i","i","d","d">>],
    [name |-> "SUBI",   pat |-> <<"0","0","1","i","i","i","d","d">>],
    [name |-> "SR0",    pat |-> <<"0","1","0","0","i","i","i","i">>],
    [name |-> "SRH0",   pat |-> <<"0","1","0","1","i","i","i","i">>],
    [name |-> "CLR",    pat |-> <<"0","1","1","0","0","0","d","d">>],
    [name |-> "MOV",    pat |-> <<"0","1","1","1","d","d","s","s">>],
    [name |-> "MOVA",   pat |-> <<"1","1","0","0","0","0","d","d">>],
    [name |-> "MOVR",   pat |-> <<"1","1","0","0","0","1","d","d">>],
    [name |-> "MOVRHS", pat |-> <<"1","1","0","0","1","0","d","d">>],
    [name |-> "PAUSE",  pat |-> <<"1","1","1","1","1","1","1","1">>] >>

\* bit k (1 = most significant) of byte b
BitOf(b, k) == (b \div (2 ^ (8 - k))) % 2

PatMatches(b, pat) ==
    \A k \in 1..8 : pat[k] \in {"0", "1"} =>
        BitOf(b, k) = (IF pat[k] = "1" THEN 1 ELSE 0)

\* the number spelled by the bits of b under the letter ch of pat
RECURSIVE FieldFrom(_, _, _, _, _)
FieldFrom(b, pat, ch, k, acc) ==
    IF k > 8 THEN acc
    ELSE FieldFrom(b, pat, ch, k + 1,
                   IF pat[k] = ch THEN 2 * acc + BitOf(b, k) ELSE acc)
PatField(b, pat, ch) == FieldFrom(b, pat, ch, 1, 0)

Signed5(f) == IF f >= 16 THEN f - 32 ELSE f

TableOp(e, b) ==
    LET i == PatField(b, e.pat, "i")
        d == PatField(b, e.pat, "d")
        s == PatField(b, e.pat, "s")
    IN  CASE e.name \in {"BR", "BRZ"} -> [tag |-> e.name, imm |-> Signed5(i)]
          [] e.name \in {"ADDI", "SUBI"} -> [tag |-> e.name, reg |-> d, imm |-> i]
          [] e.name \in {"SR0", "SRH0"} -> [tag |-> e.name, imm |-> i]
          [] e.name = "MOV" -> [tag |-> e.name, regd |-> d, regs |-> s]
          [] e.name = "PAUSE" -> [tag |-> e.name]
          [] OTHER -> [tag |-> e.name, reg |-> d]

TableMatches(b) == {k \in 1..Len(SpecTable) : PatMatches(b, SpecTable[k].pat)}

\* C1: decoding a byte gives the instruction of the one table pattern the
\* byte matches, with the operands of the pattern's bit fields; it gives
\* InvalidOpcode carrying the byte exactly when no pattern matches; no byte
\* matches two patterns and decoding never panics.
C1_DecodeMatchesTable ==
    cpc = "decoded" =>
        LET b == value.byte
            m == TableMatches(b)
        IN  /\ Cardinality(m) <= 1
            /\ tried.kind # "Panic"
            /\ (m = {}) <=> (tried = InvalidOpcode(b))
            /\ \A k \in m : tried = OkOp(TableOp(SpecTable[k], b))

\* byte 0b100_11011 decoded to BR -5 (a sign-extended field)
C1_Witness ==
    cpc = "decoded" /\ value.byte = 155 /\ tried = OkOp(OpBR(-5))

\* ------------------------------------------------- C2: round trips

\* C2: a byte that decodes re-encodes to itself, and an instruction
\* encoded and decoded again is the same instruction.
C2_RoundTrip ==
    /\ cpc = "reencoded" => binary = value.byte
    /\ cpc = "redecoded" => tried = OkOp(value.op)

\* BR -5 encoded to 0b100_11011 and decoded back
C2_Witness ==
    /\ cpc = "redecoded"
    /\ value.op = OpBR(-5)
    /\ binary = 155
    /\ tried = OkOp(OpBR(-5))

\* ------------------------------------------------- C3: Imm::new

\* C3: for the widths 3, 4 and 5, Imm::<u8,N>::new(v) is Some exactly for
\* 0 <= v <= 2^N - 1 and Imm::<i8,N>::new(v) exactly for
\* -2^(N-1) <= v <= 2^(N-1) - 1, and get() of the result is v.
C3_ImmRange ==
    /\ ipc \in {"made", "got"} =>
        LET lo == IF immArg.signed THEN 0 - 2 ^ (immArg.n - 1) ELSE 0
            hi == IF immArg.signed THEN 2 ^ (immArg.n - 1) - 1
                  ELSE 2 ^ immArg.n - 1
        IN  immOpt.some <=> (lo <= immArg.v /\ immArg.v <= hi)
    /\ ipc = "got" => immGot = immArg.v

\* the largest 5-bit signed value was accepted and read back; the next
\* value up is the first one refused
C3_Witness ==
    /\ ipc = "got"
    /\ immArg = [signed |-> TRUE, n |-> 5, v |-> 15]
    /\ immGot = 15

\* ------------------------------------------------- C4: all or nothing

\* what the grammar makes of one source line: nothing (blank or comment
\* only), an instruction, or an error
LineOutcome(raw) ==
    LET p == preprocess([string |-> raw, lineno |-> 0])
    IN  IF p.some THEN parse_line(p) ELSE [kind |-> "Skip"]

\* the positions (1-based) at or after k that marks holds TRUE at, in order
RECURSIVE PositionsFrom(_, _)
PositionsFrom(marks, k) ==
    IF k > Len(marks) THEN <<>>
    ELSE (IF marks[k] THEN <<k>> ELSE <<>>) \o PositionsFrom(marks, k + 1)

IsInstruction(raw) == LineOutcome(raw).kind = "Ok"
IsFailing(raw) == LineOutcome(raw).kind = "Err"

InstructionLines(f) == PositionsFrom([k \in 1..Len(f) |-> IsInstruction(f[k])], 1)
FailingLines(f) == PositionsFrom([k \in 1..Len(f) |-> IsFailing(f[k])], 1)

ErrorOf(raw) ==
    LET r == LineOutcome(raw) IN [x \in DOMAIN r \ {"kind"} |-> r[x]]

\* the statement of C4 for the lines f of a file
AllOrNothing(f) ==
    LET failing == FailingLines(f)
        instrs == InstructionLines(f)
    IN  IF failing # <<>>
        THEN /\ ~parsed.some
             /\ Len(errors) = Len(failing)
             /\ \A j \in 1..Len(failing) :
                    errors[j].error = ErrorOf(f[failing[j]])
        ELSE /\ parsed.some
             /\ parsed.ops = [j \in 1..Len(instrs) |-> LineOutcome(f[instrs[j]]).op]
             /\ errors = <<>>

\* C4: when parse_file is done: if a source line fails to parse, no
\* Program is returned and there is exactly one error for each failing
\* line, in order; otherwise the Program holds exactly the instruction of
\* each line that is not blank or comment-only, in source order.
C4_AllOrNothing == apc = "done" => AllOrNothing(file)

\* the same statement for the lines the reader delivered (a line that is
\* not UTF-8 is dropped by filter_map(ok) before anything looks at it)
AsmDeliveredAllOrNothing ==
    apc = "done" => AllOrNothing(SelectSeq(file, IsUtf8))

\* ------------------------------------------------- C5: line numbers

IsDeliveredFailing(raw) == IsUtf8(raw) /\ IsFailing(raw)

\* C5: every error collected carries the 1-based position, in the source,
\* of the line it is about.
C5_ErrorLineNumbers ==
    LET failing ==
            PositionsFrom([k \in 1..Len(file) |-> IsDeliveredFailing(file[k])], 1)
    IN  \A j \in 1..Len(errors) : errors[j].lineno = failing[j]

\* what the code numbers by: the position among the lines delivered
AsmLinenoCountsDeliveredLines ==
    LET failing == FailingLines(SelectSeq(file, IsUtf8))
    IN  \A j \in 1..Len(errors) : errors[j].lineno = failing[j]

\* ------------------------------------------------- parse_line, stepped

\* the immediate tokens the lines of the model are written with
ImmTokens == {
    <<"0">>,
    <<"7">>,
    <<"8">>,
    <<"1", "5">>,
    <<"1", "6">>,
    <<"-", "1", "6">>,
    <<"-", "1", "7">>,
    <<"-", "1">>,
    <<"#", "1">>,
    <<"#", "-", "3">>,
    <<"#", "#", "5">>,
    <<"a", "b", "c">>,
    <<"#">>,
    <<"+", "5">>,
    <<"-">>,
    <<"2", "5", "5">>,
    <<"2", "5", "6">>,
    <<"-", "1", "2", "9">>,
    <<"2", "1", "4", "7", "4", "8", "3", "6", "4", "7">>,
    <<"2", "1", "4", "7", "4", "8", "3", "6", "4", "8">>,
    <<"-", "2", "1", "4", "7", "4", "8", "3", "6", "4", "8">>,
    <<"-", "2", "1", "4", "7", "4", "8", "3", "6", "4", "9">>,
    <<"9", "9", "9", "9", "9", "9", "9", "9", "9", "9", "9">>,
    <<"1", "x">>,
    <<"0", "0", "7">>,
    <<"-", "0">>,
    <<"1", "2", "a">>,
    <<"#", "1", "5">>,
    <<"#", "1", "6">>,
    <<"0", "0", "0", "0", "0", "0", "0", "0", "0", "0", "0", "0", "5">> }

\* the lines of assembly.rs's tests, and a few more
OtherLines == {
    <<"P", "A", "U", "S", "E">>,
    <<"A", "D", "D", "I", " ", "r", "3", ",", " ", "7">>,
    <<"M", "O", "V", " ", "r", "3", "r", "2">>,
    <<"M", "O", "V", " ", "r", "3", ",", " ", " ", " ", " ", "r", "2">>,
    <<"S", "R", "H", "0">>,
    <<"C", "L", "R", " ", "r", "0", ",", " ", "e", "x", "t", "r", "a">>,
    <<"S", "B", "I">>,
    <<"C", "L", "R">>,
    <<" ", " ", ";", " ", "e", "m", "p", "t", "y">>,
    <<>>,
    <<"B", "R", " ", "3", " ", ";", " ", "f", "a", "r">> }

LinePool ==
    {Mnemonics[m] \o <<" ">> \o t : m \in {"BR", "BRZ", "SR0", "SRH0"}, t \in ImmTokens}
    \cup {Mnemonics[m] \o <<" ", "r", "1", ",", " ">> \o t :
            m \in {"ADDI", "SUBI"}, t \in ImmTokens}
    \cup OtherLines

LineInit ==
    /\ line \in {[string |-> l, lineno |-> 0] : l \in LinePool}
    /\ lineResult = None
    /\ lpc = "line"
    /\ CodecIdle /\ ImmIdle /\ AsmIdle /\ BinIdle /\ MainIdle

\* Line::preprocess
LinePreprocess ==
    /\ lpc = "line"
    /\ lineResult' = preprocess(line)
    /\ lpc' = IF preprocess(line).some THEN "preprocessed" ELSE "skipped"
    /\ UNCHANGED <<line, codecVars, immVars, asmVars, binVars, mainVars>>

\* parse_line on the preprocessed line
LineParse ==
    /\ lpc = "preprocessed"
    /\ lineResult' = parse_line(lineResult)
    /\ lpc' = "parsed"
    /\ UNCHANGED <<line, codecVars, immVars, asmVars, binVars, mainVars>>

LineNext == LinePreprocess \/ LineParse

SpecLine == LineInit /\ [][LineNext]_vars

\* ------------------------------------------------- C10: immediates

\* the tokens of the line being parsed
LineTokenized == tokenize(preprocess(line).string)

\* the mnemonics that take an immediate: which token it is, and the
\* bounds the claim gives for it
ImmSlots == [
    BR |-> [slot |-> 1, lo |-> -16, hi |-> 15],
    BRZ |-> [slot |-> 1, lo |-> -16, hi |-> 15],
    SR0 |-> [slot |-> 1, lo |-> 0, hi |-> 15],
    SRH0 |-> [slot |-> 1, lo |-> 0, hi |-> 15],
    ADDI |-> [slot |-> 2, lo |-> 0, hi |-> 7],
    SUBI |-> [slot |-> 2, lo |-> 0, hi |-> 7] ]

\* the line is a mnemonic that takes an immediate, its register (if any)
\* is good, and the immediate is its last token
HasImmToken ==
    /\ lpc = "parsed"
    /\ \E m \in DOMAIN ImmSlots :
        /\ LineTokenized.mnenomic = Mnemonics[m]
        /\ Len(LineTokenized.tokens) = ImmSlots[m].slot
        /\ ImmSlots[m].slot = 2 => RegFromStr(LineTokenized.tokens[1]).ok

LineImmSlot ==
    ImmSlots[CHOOSE m \in DOMAIN ImmSlots : LineTokenized.mnenomic = Mnemonics[m]]

\* the immediate token with one leading '#' taken off
LineImmText ==
    LET tok == LineTokenized.tokens[LineImmSlot.slot]
    IN  IF tok # <<>> /\ Head(tok) = "#" THEN Tail(tok) ELSE tok

\* a decimal integer: an optional sign, then one digit or more
Unsigned(t) == IF t # <<>> /\ Head(t) \in {"+", "-"} THEN Tail(t) ELSE t
IsDecimalInteger(t) ==
    /\ Unsigned(t) # <<>>
    /\ \A k \in 1..Len(Unsigned(t)) : Unsigned(t)[k] \in Digits

RECURSIVE StripZeros(_)
StripZeros(ds) ==
    IF Len(ds) > 1 /\ Head(ds) = "0" THEN StripZeros(Tail(ds)) ELSE ds

\* at most nine significant digits: the number is below 10^9 in magnitude
FewDigits(t) == Len(StripZeros(Unsigned(t))) <= 9

RECURSIVE DigitsValue(_)
DigitsValue(ds) ==
    IF ds = <<>> THEN 0
    ELSE 10 * DigitsValue(SubSeq(ds, 1, Len(ds) - 1)) + DigitVal(ds[Len(ds)])

\* the integer a decimal token of few digits spells
DecimalValue(t) ==
    IF Head(t) = "-" THEN 0 - DigitsValue(StripZeros(Unsigned(t)))
    ELSE DigitsValue(StripZeros(Unsigned(t)))

InClaimedBounds(t) ==
    /\ FewDigits(t)
    /\ LineImmSlot.lo <= DecimalValue(t)
    /\ DecimalValue(t) <= LineImmSlot.hi

\* C10: a decimal integer within the operand's bounds yields that
\* immediate; a decimal integer outside them, of any magnitude, yields
\* ImmediateOutOfRange carrying it; a token that is not a decimal integer
\* yields InvalidImmediate carrying the text.
C10_ImmediateClassification ==
    HasImmToken =>
        LET t == LineImmText
        IN  IF ~IsDecimalInteger(t)
            THEN lineResult = AsmErrText("InvalidImmediate", t)
            ELSE IF InClaimedBounds(t)
            THEN lineResult.kind = "Ok" /\ lineResult.op.imm = DecimalValue(t)
            ELSE /\ lineResult.kind = "Err"
                 /\ lineResult.err = "ImmediateOutOfRange"
                 /\ FewDigits(t) => lineResult.val = DecimalValue(t)

\* what holds of the code: the claim for the decimal integers of at most
\* nine significant digits, all of which fit an i32
LineImmClassifiedUpTo9Digits ==
    HasImmToken /\ (IsDecimalInteger(LineImmText) => FewDigits(LineImmText))
        => C10_ImmediateClassification

\* ------------------------------------------------- program.rs: as_text

\* [String]::join("\n")
RECURSIVE JoinLines(_)
JoinLines(strs) ==
    IF strs = <<>> THEN <<>>
    ELSE IF Len(strs) = 1 THEN strs[1]
    ELSE strs[1] \o <<"\n">> \o JoinLines(Tail(strs))

\* Program::as_text
as_text(p) == JoinLines([k \in 1..Len(p.ops) |-> to_string(p.ops[k])])

\* Program::as_binary
as_binary(p) == [k \in 1..Len(p.ops) |-> to_binary(p.ops[k])]

StripCr(l) ==
    IF l # <<>> /\ l[Len(l)] = "\r" THEN SubSeq(l, 1, Len(l) - 1) ELSE l

\* BufReader::lines of parse_file::inner: the text up to each "\n", without
\* it and without a "\r" before it; a last line needs no "\n"
RECURSIVE Lines(_)
Lines(t) ==
    IF t = <<>> THEN <<>>
    ELSE LET k == FindFrom(t, {"\n"}, 1)
         IN  IF k = 0 THEN <<t>>
             ELSE <<StripCr(SubSeq(t, 1, k - 1))>>
                  \o Lines(SubSeq(t, k + 1, Len(t)))

MaxTextLen == 3

\* the programs written as text: every instruction alone, and the
\* sequences of a few of them
TextOps == {OpBR(-16), OpADDI(3, 7), OpMOV(1, 2), OpPAUSE}
TextPrograms ==
    {<<o>> : o \in AllOps} \cup BoundedSeq(TextOps, MaxTextLen)

TextInit ==
    /\ prog \in {[ops |-> p] : p \in TextPrograms}
    /\ format = "ASM"
    /\ outfile = None /\ serialized = None /\ exitCode = None
    /\ mpc = "serialize"
    /\ CodecIdle /\ ImmIdle /\ AsmIdle /\ LineIdle /\ BinIdle

\* program.as_text()
TextSerialize ==
    /\ mpc = "serialize"
    /\ format = "ASM"
    /\ serialized' = as_text(prog)
    /\ mpc' = "serialized"
    /\ UNCHANGED <<prog, format, outfile, exitCode>>
    /\ UNCHANGED <<codecVars, immVars, asmVars, lineVars, binVars>>

\* assembly::parse_file on the text just written
TextReopen ==
    /\ mpc = "serialized"
    /\ apc = "idle"
    /\ file' = Lines(serialized)
    /\ apc' = "lines"
    /\ mpc' = "reread"
    /\ UNCHANGED <<nread, count, ops, errors, stdout, parsed>>
    /\ UNCHANGED <<prog, format, outfile, serialized, exitCode>>
    /\ UNCHANGED <<codecVars, immVars, lineVars, binVars>>

TextNext == TextSerialize \/ TextReopen \/ AsmPullLine \/ AsmCollect

SpecText == TextInit /\ [][TextNext]_vars

\* ------------------------------------------------- C9: text is re-readable

\* C9: the lines of p.as_text(), parsed by the assembly parser, give no
\* error and a Program equal to p.
C9_TextRoundTrip ==
    (mpc = "reread" /\ apc = "done") =>
        /\ errors = <<>>
        /\ parsed = [some |-> TRUE, ops |-> prog.ops]

\* a three-instruction program with a negative branch offset was written
\* and read back
C9_Witness ==
    /\ mpc = "reread"
    /\ apc = "done"
    /\ prog.ops = <<OpBR(-16), OpADDI(3, 7), OpMOV(1, 2)>>
    /\ file = << <<"B", "R", " ", "-", "1", "6">>,
                 <<"A", "D", "D", "I", " ", "r", "3", ",", " ", "7">>,
                 <<"M", "O", "V", " ", "r", "1", ",", " ", "r", "2">> >>
    /\ parsed.some

\* ------------------------------------------------- binary::parse_file

ReadError == [error |-> "ReadError"]

BinaryErrorOneBased(e, position) ==
    [error |-> "BinaryError", opcode |-> e.opcode, position |-> position + 1]

\* BinaryFileError::BinaryError(InvalidOpcode, usize)
BinaryError(e, position) ==
    [error |-> "BinaryError", opcode |-> e.opcode, position |-> position]

\* file.read_to_end(&mut contents).or(Err(ReadError))?
BinReadToEnd ==
    /\ bpc = "read"
    /\ IF disk.readable
       THEN /\ contents' = disk.bytes
            /\ bpc' = "decode"
            /\ UNCHANGED <<bstdout, bparsed>>
       ELSE /\ bparsed' = [some |-> FALSE]
            /\ bstdout' = <<ReadError>>
            /\ bpc' = "done"
            /\ UNCHANGED contents
    /\ UNCHANGED <<disk, bidx, bops>>
    /\ UNCHANGED <<codecVars, immVars, asmVars, lineVars, mainVars>>

\* one item of contents.iter().enumerate().map(try_into) taken by
\* collect::<Result<Vec<Op>, _>>: the first Err ends the collection and is
\* the result, which parse_file prints before it returns None
BinDecodeByte ==
    /\ bpc = "decode"
    /\ bidx < Len(contents)
    /\ LET r == TryFrom(contents[bidx + 1])
       IN  IF r.kind = "Ok"
           THEN /\ bops' = Append(bops, r.op)
                /\ bidx' = bidx + 1
                /\ UNCHANGED <<bstdout, bparsed, bpc>>
           ELSE IF r.kind = "Err"
           THEN /\ bparsed' = [some |-> FALSE]
                /\ bstdout' = <<BinaryError(r, bidx)>>
                /\ bpc' = "done"
                /\ UNCHANGED <<bops, bidx>>
           ELSE /\ bpc' = "panicked"
                /\ UNCHANGED <<bops, bidx, bstdout, bparsed>>
    /\ UNCHANGED <<disk, contents>>
    /\ UNCHANGED <<codecVars, immVars, asmVars, lineVars, mainVars>>

\* the iterator is exhausted: Ok(ops), mapped to Program { ops }
BinCollect ==
    /\ bpc = "decode"
    /\ bidx = Len(contents)
    /\ bparsed' = [some |-> TRUE, ops |-> bops]
    /\ bpc' = "done"
    /\ UNCHANGED <<disk, contents, bidx, bops, bstdout>>
    /\ UNCHANGED <<codecVars, immVars, asmVars, lineVars, mainVars>>

BinNext == BinReadToEnd \/ BinDecodeByte \/ BinCollect

\* the bytes the files of the model are made of: ADDI r0 0, BR -5, PAUSE,
\* and three bytes that are no opcode (0x64, 0xCC, 0xFE)
BytePool == {0, 155, 255, 100, 204, 254}

MaxBytes == 3

BinInit ==
    /\ disk \in {[bytes |-> b, readable |-> r] :
                    b \in BoundedSeq(BytePool, MaxBytes), r \in BOOLEAN}
    /\ contents = <<>> /\ bidx = 0 /\ bops = <<>>
    /\ bstdout = <<>> /\ bparsed = None /\ bpc = "read"
    /\ CodecIdle /\ ImmIdle /\ AsmIdle /\ LineIdle /\ MainIdle

SpecBin == BinInit /\ [][BinNext]_vars

\* ------------------------------------------------- C6: binary errors

\* the offsets (0-based) of the bytes that match no pattern of the table
InvalidOffsets(bytes) ==
    {k \in 0..(Len(bytes) - 1) : TableMatches(bytes[k + 1]) = {}}

\* the instruction the table gives for a byte that matches a pattern
TableDecode(b) ==
    TableOp(SpecTable[CHOOSE k \in TableMatches(b) : TRUE], b)

ProgramIffAllValid ==
    (bparsed.some <=> InvalidOffsets(contents) = {})
    /\ (bparsed.some =>
            bparsed.ops = [k \in 1..Len(contents) |-> TableDecode(contents[k])])

\* C6 as stated: every invalid byte is reported with its offset, and a
\* Program of one instruction per byte is returned iff there is none.
C6_AllInvalidBytesReported ==
    (bpc = "done" /\ disk.readable) =>
        /\ ProgramIffAllValid
        /\ \A k \in InvalidOffsets(contents) :
              \E j \in 1..Len(bstdout) :
                  bstdout[j] = [error |-> "BinaryError",
                                opcode |-> contents[k + 1], position |-> k]

Min(S) == CHOOSE x \in S : \A y \in S : x <= y

\* C6 as amended: decoding stops at the first invalid byte; that byte
\* alone is reported, with its 0-based offset, and no Program is returned;
\* a Program of one instruction per byte is returned iff no byte is invalid.
C6_FirstInvalidByteReported ==
    (bpc = "done" /\ disk.readable) =>
        /\ ProgramIffAllValid
        /\ IF InvalidOffsets(contents) = {} THEN bstdout = <<>>
           ELSE LET k == Min(InvalidOffsets(contents))
                IN  bstdout = <<[error |-> "BinaryError",
                                 opcode |-> contents[k + 1], position |-> k]>>

\* two invalid bytes after a valid one: only the first, at offset 1, is
\* reported
C6_Witness ==
    /\ bpc = "done"
    /\ contents = <<0, 254, 204>>
    /\ bstdout = <<[error |-> "BinaryError", opcode |-> 254, position |-> 1]>>
    /\ ~bparsed.some

\* ------------------------------------------------- program.rs: as_mif

\* {:b} of a number
RECURSIVE FmtBin(_)
FmtBin(n) ==
    IF n < 2 THEN <<DigitChar(n)>>
    ELSE FmtBin(n \div 2) \o <<DigitChar(n % 2)>>

RECURSIVE PadZeros(_, _)
PadZeros(ds, w) == IF Len(ds) >= w THEN ds ELSE PadZeros(<<"0">> \o ds, w)

\* {:08b}
FmtBin08(n) == PadZeros(FmtBin(n), 8)

MifWidth == 8
MifDepth == 256

MifHeader == <<
    [kind |-> "WIDTH", value |-> MifWidth],
    [kind |-> "DEPTH", value |-> MifDepth],
    [kind |-> "blank"],
    [kind |-> "ADDRESS_RADIX", value |-> "UNS"],
    [kind |-> "DATA_RADIX", value |-> "BIN"],
    [kind |-> "blank"],
    [kind |-> "CONTENT BEGIN"] >>

\* "\t{n}\t:\t{:08b};"
MifWord(n, byte) ==
    [kind |-> "word", addr |-> n, data |-> FmtBin08(byte), semicolon |-> TRUE]

MifFillAlwaysRange(len) ==
    <<[kind |-> "range", from |-> len, to |-> MifDepth - 1,
       data |-> FmtBin08(0), semicolon |-> TRUE]>>

\* the match on len that ends as_mif: nothing, "\t255\t:\t{:08b}" (which
\* has no semicolon), or "\t[{}..{}]\t:\t{:08b};"
MifFill(len) ==
    IF len = MifDepth THEN <<>>
    ELSE IF len = MifDepth - 1
    THEN <<[kind |-> "word", addr |-> 255, data |-> FmtBin08(0),
            semicolon |-> FALSE]>>
    ELSE <<[kind |-> "range", from |-> len, to |-> MifDepth - 1,
            data |-> FmtBin08(0), semicolon |-> TRUE]>>

\* Program::as_mif: the text as its lines, or the panic of a program
\* longer than depth (writing to a String never fails, so no `?` returns)
as_mif(p) ==
    LET len == Len(p.ops)
    IN  IF len > MifDepth THEN Panic
        ELSE [kind |-> "Ok",
              text |-> MifHeader
                       \o [n \in 1..len |-> MifWord(n - 1, to_binary(p.ops[n]))]
                       \o MifFill(len)
                       \o <<[kind |-> "END"]>>]

\* ------------------------------------------------- main.rs: the output

\* File::create(&outfilename).expect(..): the file exists and is empty,
\* whatever it held, or the process panics
MainCreate ==
    /\ mpc = "create"
    /\ \E created \in BOOLEAN :
        IF created
        THEN /\ outfile' = [exists |-> TRUE, data |-> <<>>, complete |-> TRUE]
             /\ mpc' = "serialize"
             /\ UNCHANGED exitCode
        ELSE /\ mpc' = "panicked"
             /\ exitCode' = 101
             /\ UNCHANGED outfile
    /\ UNCHANGED <<prog, format, serialized>>
    /\ UNCHANGED <<codecVars, immVars, asmVars, lineVars, binVars>>

\* let contents = match cli.format { .. }: as_mif's Result is unwrapped
MainSerialize ==
    /\ mpc = "serialize"
    /\ format \in {"ASM", "HEX", "MIF"}
    /\ LET r == CASE format = "ASM" -> [kind |-> "Ok", text |-> as_text(prog)]
                  [] format = "HEX" -> [kind |-> "Ok", text |-> as_binary(prog)]
                  [] format = "MIF" -> as_mif(prog)
       IN  /\ serialized' = r
           /\ IF r.kind = "Ok"
              THEN mpc' = "write" /\ UNCHANGED exitCode
              ELSE mpc' = "panicked" /\ exitCode' = 101
    /\ UNCHANGED <<prog, format, outfile>>
    /\ UNCHANGED <<codecVars, immVars, asmVars, lineVars, binVars>>

\* outfile.write(&contents): all of it, a part of it (write may stop
\* short and still return Ok), or an error
MainWrite ==
    /\ mpc = "write"
    /\ \E outcome \in {"all", "part", "error"} :
        /\ outfile' = [exists |-> TRUE,
                       data |-> IF outcome = "error" THEN <<>> ELSE serialized.text,
                       complete |-> outcome = "all"]
        /\ exitCode' = IF outcome = "error" THEN 1 ELSE 0
    /\ mpc' = "exit"
    /\ UNCHANGED <<prog, format, serialized>>
    /\ UNCHANGED <<codecVars, immVars, asmVars, lineVars, binVars>>

MainNext == MainCreate \/ MainSerialize \/ MainWrite

\* the programs main is given: the opcodes that decode, taken in steps of
\* 37 from a first one
GenByte(first, k) ==
    LET r == (first + 37 * k) % 193
    IN  IF r < 100 THEN r ELSE IF r < 192 THEN r + 12 ELSE 255
GenProgram(first, len) ==
    [ops |-> [k \in 1..len |-> TryFrom(GenByte(first, k)).op]]

MaxProgLen == 258
FirstOps == {128}

\* what the output file is before main runs: absent, or an earlier output
OldFile == [exists |-> TRUE, data |-> <<"old">>, complete |-> TRUE]
NoFile == [exists |-> FALSE, data |-> <<>>, complete |-> TRUE]

MainInit ==
    /\ prog \in {GenProgram(f, n) : f \in FirstOps, n \in 0..MaxProgLen}
    /\ format \in {"ASM", "HEX", "MIF"}
    /\ outfile \in {NoFile, OldFile}
    /\ serialized = None
    /\ exitCode = None
    /\ mpc = "create"
    /\ CodecIdle /\ ImmIdle /\ AsmIdle /\ LineIdle /\ BinIdle

SpecMain == MainInit /\ [][MainNext]_vars

\* ------------------------------------------------- C7: the MIF entries

\* the number a string of binary digits spells
RECURSIVE BinValue(_)
BinValue(ds) ==
    IF ds = <<>> THEN 0
    ELSE 2 * BinValue(SubSeq(ds, 1, Len(ds) - 1)) + DigitVal(ds[Len(ds)])

IsMifEntry(l) == l.kind \in {"word", "range"}

\* the addresses an entry assigns: from EntryLo to EntryHi
EntryLo(l) == IF l.kind = "word" THEN l.addr ELSE l.from
EntryHi(l) == IF l.kind = "word" THEN l.addr ELSE l.to

\* the entries, in order, split 0..255: each starts where the one before
\* ended, so every address is assigned by exactly one entry
AssignsEachAddressOnce(w) ==
    /\ w # <<>>
    /\ EntryLo(w[1]) = 0
    /\ EntryHi(w[Len(w)]) = 255
    /\ \A j \in 1..Len(w) : EntryLo(w[j]) <= EntryHi(w[j])
    /\ \A j \in 1..(Len(w) - 1) : EntryLo(w[j + 1]) = EntryHi(w[j]) + 1

Zeros8 == <<"0", "0", "0", "0", "0", "0", "0", "0">>

\* C7: for a Program of len <= 256 instructions, as_mif emits len
\* instruction entries, entry n holding address n and the 8-bit encoding of
\* instruction n, then no fill entry (len = 256), an entry for address 255
\* with 00000000 (len = 255), or a range [len..255] with value 0; so every
\* address 0..255 is assigned exactly once and every address >= len gets 0.
C7_MifEntries ==
    (format = "MIF" /\ mpc \in {"write", "exit"}) =>
        LET len == Len(prog.ops)
            w == SelectSeq(serialized.text, IsMifEntry)
        IN  /\ len <= 256
            /\ Len(w) = (IF len = 256 THEN 256 ELSE len + 1)
            /\ \A n \in 0..(len - 1) :
                /\ w[n + 1].kind = "word"
                /\ w[n + 1].addr = n
                /\ Len(w[n + 1].data) = 8
                /\ TryFrom(BinValue(w[n + 1].data)) = OkOp(prog.ops[n + 1])
            /\ len = 255 =>
                /\ w[256].kind = "word" /\ w[256].addr = 255
                /\ w[256].data = Zeros8
            /\ len < 255 =>
                /\ w[len + 1].kind = "range"
                /\ w[len + 1].from = len /\ w[len + 1].to = 255
                /\ BinValue(w[len + 1].data) = 0
            /\ AssignsEachAddressOnce(w)
            /\ \A j \in 1..Len(w) :
                EntryHi(w[j]) >= len => BinValue(w[j].data) = 0

\* a program of 255 instructions was serialized: 256 entries, the last one
\* the single address 255
C7_Witness ==
    /\ format = "MIF"
    /\ mpc = "write"
    /\ Len(prog.ops) = 255
    /\ Len(SelectSeq(serialized.text, IsMifEntry)) = 256
    /\ serialized.text[Len(serialized.text) - 1].kind = "word"

\* ------------------------------------------------- C8: over capacity

\* C8: serializing a Program of more than 256 instructions as MIF fails
\* with a capacity-exceeded error handed to the caller, with no MIF text
\* produced and no output left behind; for len <= 256 it succeeds.
C8_CapacityErrorReported ==
    (format = "MIF" /\ serialized # None) =>
        IF Len(prog.ops) > 256
        THEN /\ serialized.kind = "Err"
             /\ mpc # "panicked"
             /\ ~(outfile.exists /\ outfile.data = <<>>)
        ELSE serialized.kind = "Ok"

\* what the code does over capacity: as_mif panics, after main has
\* created (emptied) the output file, and the process dies with no text
MifPanicsOverCapacity ==
    (format = "MIF" /\ serialized # None) =>
        IF Len(prog.ops) > 256
        THEN /\ serialized = Panic
             /\ mpc = "panicked"
             /\ exitCode = 101
             /\ outfile = [exists |-> TRUE, data |-> <<>>, complete |-> TRUE]
        ELSE serialized.kind = "Ok"

\* ------------------------------------------------- parse_line on
\* separators and operand lists

\* the mnemonics the lines are written with: the twelve of parse_line and
\* three it does not know
LowerAddi == <<"a", "d", "d", "i">>
UnknownMnemonics == {LowerAddi, <<"M", "O", "V", "E">>, <<"N", "O", "P">>}

WrittenMnemonics ==
    {Mnemonics[m] : m \in DOMAIN Mnemonics} \cup UnknownMnemonics

\* the operand tokens the lines are written with: a register, a register
\* that does not exist, a token that is neither, an immediate in range
\* for every width, one out of range for every width
OperandTokens == {<<"r", "1">>, <<"r", "9">>, <<"x">>, <<"7">>, <<"9", "9">>}

MaxOperands == 3

RECURSIVE JoinWith(_, _)
JoinWith(strs, sep) ==
    IF strs = <<>> THEN <<>>
    ELSE IF Len(strs) = 1 THEN strs[1]
    ELSE strs[1] \o sep \o JoinWith(Tail(strs), sep)

\* a line the way Op::to_string separates it: "MNEMONIC a, b"
WrittenLine(m, toks) ==
    IF toks = <<>> THEN m ELSE m \o <<" ">> \o JoinWith(toks, <<",", " ">>)

OperandLines ==
    {WrittenLine(m, toks) :
        m \in WrittenMnemonics, toks \in BoundedSeq(OperandTokens, MaxOperands)}

\* what is written between the mnemonic and the first operand, and
\* between two operands
MnemonicSeparators ==
    {<<" ">>, <<"\t">>, <<" ", " ">>, <<" ", "\t">>, <<"\t", " ">>}

OperandSeparators ==
    {<<",">>, <<",", " ">>, <<" ">>, <<"\t">>, <<",", "\t">>, <<"\t", ",">>,
     <<" ", ",", " ">>, <<",", ",">>, <<" ", " ">>, <<" ", "\t">>,
     <<"\t", "\t">>}

\* valid instructions of each operand shape
SeparatedForms == {
    <<Mnemonics.ADDI, <<"r", "3">>, <<"7">>>>,
    <<Mnemonics.MOV, <<"r", "3">>, <<"r", "2">>>>,
    <<Mnemonics.SUBI, <<"r", "0">>, <<"#", "1">>>> }

SeparatorLines ==
    {f[1] \o s1 \o f[2] \o s2 \o f[3] :
        f \in SeparatedForms, s1 \in MnemonicSeparators,
        s2 \in OperandSeparators}
    \cup {Mnemonics[m] \o s1 \o t \o s2 :
            m \in {"CLR", "BR"}, s1 \in MnemonicSeparators,
            t \in {<<"r", "1">>, <<"-", "3">>},
            s2 \in {<<>>, <<"\t">>, <<" ">>}}

OperandInit ==
    /\ line \in {[string |-> l, lineno |-> 0] :
                    l \in OperandLines \cup SeparatorLines}
    /\ lineResult = None
    /\ lpc = "line"
    /\ CodecIdle /\ ImmIdle /\ AsmIdle /\ BinIdle /\ MainIdle

OperandNext == LinePreprocess \/ LineParse

SpecOperands == OperandInit /\ [][OperandNext]_vars

\* ------------------------------------------------- C11: separators

\* the separators of the assembly grammar: whitespace after the
\* mnemonic, runs of commas and whitespace between operands
GrammarWhitespace == {" ", "\t"}
GrammarOperandSeparators == {","} \cup GrammarWhitespace

GrammarMnemonic(s) ==
    LET k == FindFrom(s, GrammarWhitespace, 1)
    IN  IF k = 0 THEN s ELSE SubSeq(s, 1, k - 1)

GrammarOperands(s) ==
    LET k == FindFrom(s, GrammarWhitespace, 1)
    IN  IF k = 0 THEN <<>>
        ELSE SelectSeq(Split(SubSeq(s, k + 1, Len(s)), GrammarOperandSeparators),
                       LAMBDA t : t # <<>>)

\* the same mnemonic and operands, separated by single spaces
SpaceSeparatedForm(s) ==
    IF GrammarOperands(s) = <<>> THEN GrammarMnemonic(s)
    ELSE GrammarMnemonic(s) \o <<" ">> \o JoinWith(GrammarOperands(s), <<" ">>)

LineSpaceSeparated ==
    [string |-> SpaceSeparatedForm(preprocess(line).string), lineno |-> 0]

HasTab(s) == \E k \in 1..Len(s) : s[k] = "\t"

\* C11: a line whose mnemonic and operands are separated by any
\* whitespace (space or tab) and any run of commas and whitespace parses
\* to the same instruction as its space-separated form
C11_AnyWhitespaceSeparates ==
    lpc = "parsed" /\ parse_line(LineSpaceSeparated).kind = "Ok"
        => lineResult = parse_line(LineSpaceSeparated)

\* what the code does: it splits on ' ' and ',' only, so the lines that
\* hold no tab inside are tokenized as the grammar says
LineTabFreeTokenizedAsGrammar ==
    lpc \in {"preprocessed", "parsed"} /\ ~HasTab(preprocess(line).string)
        => tokenize(preprocess(line).string) =
              [mnenomic |-> GrammarMnemonic(preprocess(line).string),
               tokens |-> GrammarOperands(preprocess(line).string)]

\* ------------------------------------------------- C12: error precedence

\* the operand slots of each mnemonic, in the order they are written
OperandShape == [
    BR |-> <<"i5">>,
    BRZ |-> <<"i5">>,
    ADDI |-> <<"reg", "u3">>,
    SUBI |-> <<"reg", "u3">>,
    SR0 |-> <<"u4">>,
    SRH0 |-> <<"u4">>,
    CLR |-> <<"reg">>,
    MOVA |-> <<"reg">>,
    MOVR |-> <<"reg">>,
    MOVRHS |-> <<"reg">>,
    MOV |-> <<"reg", "reg">>,
    PAUSE |-> <<>> ]

KnownMnemonic(m) == \E t \in DOMAIN Mnemonics : Mnemonics[t] = m
TagOf(m) == CHOOSE t \in DOMAIN Mnemonics : Mnemonics[t] = m

\* one token read for one slot, by itself
SlotOutcome(slot, tok) ==
    CASE slot = "reg" -> get_reg(<<tok>>).res
      [] slot = "i5" -> get_imm(<<tok>>, TRUE, 5).res
      [] slot = "u3" -> get_imm(<<tok>>, FALSE, 3).res
      [] slot = "u4" -> get_imm(<<tok>>, FALSE, 4).res

SlotMissing(slot) ==
    IF slot = "reg" THEN AsmErr("MissingRegister") ELSE AsmErr("MissingImmediate")

\* slot k of the shape, filled from token k: missing, malformed or fine
SlotResult(shape, toks, k) ==
    IF k > Len(toks) THEN SlotMissing(shape[k])
    ELSE SlotOutcome(shape[k], toks[k])

FailingSlots(shape, toks) ==
    {k \in 1..Len(shape) : SlotResult(shape, toks, k).kind = "Err"}

\* C12: an unknown mnemonic is InvalidMnenomic whatever the operands;
\* otherwise the result is the error of the first slot that is missing or
\* malformed; ExtraToken, with the first leftover token, exactly when
\* every slot parsed and tokens remain; one result per line
C12_ErrorPrecedence ==
    lpc = "parsed" =>
        LET m == LineTokenized.mnenomic
            toks == LineTokenized.tokens
        IN  /\ lineResult.kind \in {"Ok", "Err"}
            /\ ~KnownMnemonic(m) => lineResult = AsmErrText("InvalidMnenomic", m)
            /\ KnownMnemonic(m) =>
                 LET shape == OperandShape[TagOf(m)]
                     failing == FailingSlots(shape, toks)
                 IN  /\ failing # {} =>
                            lineResult = SlotResult(shape, toks, Min(failing))
                     /\ failing = {} /\ Len(toks) > Len(shape) =>
                            lineResult = AsmErrText("ExtraToken", toks[Len(shape) + 1])
                     /\ failing = {} /\ Len(toks) = Len(shape) =>
                            lineResult.kind = "Ok"
                     /\ lineResult.kind = "Err" /\ lineResult.err = "ExtraToken" =>
                            failing = {} /\ Len(toks) > Len(shape)

\* "ADDI r9, 99, x" has a bad register, a bad immediate and a token too
\* many: the register is the error
C12_Witness ==
    /\ lpc = "parsed"
    /\ LineTokenized.mnenomic = Mnemonics.ADDI
    /\ LineTokenized.tokens = <<<<"r", "9">>, <<"9", "9">>, <<"x">>>>
    /\ lineResult = AsmErrText("InvalidRegister", <<"r", "9">>)

====
